---- MODULE Spec2Model ----
(***************************************************************************)
(* State-machine model of CarouselController                               *)
(* (source/frontend/src/component/Carousel/carousel/CarouselController.ts) *)
(* and of the timers, tweens and drag gestures it registers with the DOM,  *)
(* lodash and GSAP.  Positions are whole pixels.                           *)
(***************************************************************************)
EXTENDS Integers, Sequences, FiniteSets, TLC

VARIABLES
    itemCount,          \* carouselItems.length
    itemWidth,          \* this.itemWidth
    viewWidth,          \* this.viewWidth
    options,            \* this.options (the three flags the controller reads)
    bounds,             \* the bounds handed to Draggable.create (null when infinite)
    snapIndex,          \* this.snapIndex
    previousSnapIndex,  \* this.previousSnapIndex
    inViewIndexes,      \* this.inViewIndexes
    autoplayInterval,   \* this.autoplayInterval (0 is null)
    intervals,          \* handles of the intervals setInterval created and nobody cleared
    animation,          \* this.animation # null
    draggerX,           \* this.dragger.x
    gesture,            \* "idle", "dragging" (pointer down and moving) or "throwing"
    throwEnd,           \* where the throw tween of the current gesture settles
    tweens,             \* the tweens goto created on this.dragger, oldest first
    listening,          \* the window resize listener is attached
    debounce,           \* the 150 ms debounce timer of the resize listener is pending
    initTimer,          \* the constructor's setTimeout(..., 0) is pending
    disposed,           \* dispose() has run
    lastCall,           \* observer: the call made by the step that led here
    lastChange,         \* observer: the CHANGE event dispatched by the step that led here
    lastRender,         \* observer: the x and visibility the modifier gave every item in the step that led here
    viewLog,            \* observer: per item, the ITEM_IN_VIEW events dispatched so far minus the ITEM_OUT_VIEW events
    nextRun,            \* observer: the current run of consecutive next() calls
    rotation,           \* the getNearestRotationIndex call activate is inside of: its position and locals
    lastFrame           \* observer: the callback of a goto tween that ran in the step that led here

vars == <<itemCount, itemWidth, viewWidth, options, bounds, snapIndex,
          previousSnapIndex, inViewIndexes, autoplayInterval, intervals,
          animation, draggerX, gesture, throwEnd, tweens,
          listening, debounce, initTimer, disposed,
          lastCall, lastChange, lastRender, viewLog, nextRun,
          rotation, lastFrame>>

----------------------------------------------------------------------------
(* Bounds of the model *)

MaxItems == 3
MaxItemWidth == 2
MaxViewWidth == 2

ItemCounts == 1..MaxItems
ItemWidths == 1..MaxItemWidth
ViewWidths == 1..MaxViewWidth
Items == 0..(itemCount - 1)

----------------------------------------------------------------------------
(* JavaScript arithmetic *)

Abs(a) == IF a < 0 THEN 0 - a ELSE a

\* a % b of JavaScript: the remainder takes the sign of the dividend
JsRem(a, b) == IF a >= 0 THEN a % b ELSE 0 - ((0 - a) % b)

\* Math.floor(a / b), b > 0
MathFloorDiv(a, b) == a \div b

\* Math.round(a / b), b > 0: halves round towards +Infinity
MathRound(a, b) == (2 * a + b) \div (2 * b)

----------------------------------------------------------------------------
(* Pure parts of the controller *)

\* A variant of IndexOf that leaves out the second wrap
IndexNoWrap(snap, total) == JsRem(snap, total)

\* get index(): ((snapIndex % total) + total) % total
IndexOf(snap, total) == JsRem(JsRem(snap, total) + total, total)

Index == IndexOf(snapIndex, itemCount)

\* while (curIndex < 0) curIndex += total
RECURSIVE NormalizeUp(_, _)
NormalizeUp(cur, total) ==
    IF cur < 0 THEN NormalizeUp(cur + total, total) ELSE cur

\* A variant of GetNearestRotationIndex whose wrap-around walks the wrong way
NearestWrongWay(index, newIndex, total) ==
    LET curIndex == NormalizeUp(index, total)
        diff == Abs(curIndex - newIndex)
    IN  IF 2 * diff > total
        THEN IF curIndex > newIndex
             THEN index - (total - diff)
             ELSE index + (total - diff)
        ELSE IF curIndex < newIndex
             THEN index + diff
             ELSE index - diff

\* getNearestRotationIndex(index, newIndex, total), for newIndex >= 0 (the
\* second loop tests newIndex, so it is not entered and updatedNewIndex is
\* newIndex); diff > total / 2 is compared without dividing
GetNearestRotationIndex(index, newIndex, total) ==
    LET curIndex == NormalizeUp(index, total)
        updatedNewIndex == newIndex
        diff == Abs(curIndex - updatedNewIndex)
    IN  IF 2 * diff > total
        THEN IF curIndex > updatedNewIndex
             THEN index + (total - diff)
             ELSE index - (total - diff)
        ELSE IF curIndex < updatedNewIndex
             THEN index + diff
             ELSE index - diff

\* A variant of SnapIndexOf that truncates downwards instead of rounding
SnapIndexFloor(endValue, width) == MathFloorDiv(endValue, width) * (0 - 1)

\* getSnap, first line: Math.round(endValue / this.itemWidth) * -1
SnapIndexOf(endValue, width) == MathRound(endValue, width) * (0 - 1)

\* getSnap, second line: this.snapIndex * -1 * this.itemWidth
SnapPosition(snap, width) == snap * (0 - 1) * width

\* moveRow ? Math.floor(this.viewWidth / this.itemWidth) : 1
RowSize(moveRow, view, width) ==
    IF moveRow THEN MathFloorDiv(view, width) ELSE 1

\* A variant of NextSnapIndex that stops at the last item
NextSnapIndexClamped(snap, moveRow, view, width, total) ==
    IF snap + RowSize(moveRow, view, width) > total - 1
    THEN total - 1
    ELSE snap + RowSize(moveRow, view, width)

\* next: this.snapIndex += moveRow ? Math.floor(viewWidth / itemWidth) : 1
NextSnapIndex(snap, moveRow, view, width, total) ==
    snap + RowSize(moveRow, view, width)

\* A variant of PreviousSnapIndex that forgets moveRow
PreviousSnapIndexOne(snap, moveRow, view, width) == snap - 1

\* previous: this.snapIndex -= moveRow ? Math.floor(viewWidth / itemWidth) : 1
PreviousSnapIndex(snap, moveRow, view, width) ==
    snap - RowSize(moveRow, view, width)

\* getBounds(): null (here a record with none set) when infinite
GetBounds(opts, count, width, view) ==
    IF opts.isInfinite
    THEN [none |-> TRUE, maxX |-> 0, minX |-> 0]
    ELSE [none |-> FALSE, maxX |-> 0, minX |-> 0 - (width * count - view)]

\* The smallest handle setInterval has not handed out to a live interval
FreshInterval(live) ==
    CHOOSE id \in 1..(Cardinality(live) + 1) :
        /\ id \notin live
        /\ \A other \in 1..(Cardinality(live) + 1) : other \notin live => id <= other

\* startAutoplay(): the new handle overwrites the stored one
StartAutoplay(timer) ==
    IF options.isAutoplay
    THEN [handle |-> FreshInterval(timer.live),
          live |-> timer.live \cup {FreshInterval(timer.live)}]
    ELSE timer

\* stopAutoplay(): clears the stored handle only
StopAutoplay(timer) ==
    IF timer.handle # 0
    THEN [handle |-> 0, live |-> timer.live \ {timer.handle}]
    ELSE timer

Timer == [handle |-> autoplayInterval, live |-> intervals]

----------------------------------------------------------------------------
(* The looping animation and the in-view set *)

\* Array.prototype.indexOf, 0-based, -1 when absent
RECURSIVE IndexOfFrom(_, _, _)
IndexOfFrom(seq, value, k) ==
    IF k > Len(seq) THEN 0 - 1
    ELSE IF seq[k] = value THEN k - 1
    ELSE IndexOfFrom(seq, value, k + 1)

ArrayIndexOf(seq, value) == IndexOfFrom(seq, value, 1)

\* Array.prototype.splice(k, 1), k 0-based
Splice(seq, k) ==
    [j \in 1..(Len(seq) - 1) |-> IF j <= k THEN seq[j] ELSE seq[j + 1]]

\* The observer counts ITEM_IN_VIEW as +1 and ITEM_OUT_VIEW as -1
Logged(log, i, event) ==
    [log EXCEPT ![i] = IF event = "in" THEN @ + 1 ELSE @ - 1]

\* dispatchEvent of a view event of item i: the observer notes it
Dispatched(view, i, event) ==
    [log |-> Logged(view.log, i, event),
     events |-> view.events \cup {<<i, event>>}]

\* A variant of AddInViewItem that pushes and dispatches on every update
AddInViewAlways(view, i) ==
    [inView |-> Append(view.inView, i)] @@ Dispatched(view, i, "in")

\* addInViewItem(target, currentX): ITEM_IN_VIEW and push, once
AddInViewItem(view, i) ==
    IF ArrayIndexOf(view.inView, i) < 0
    THEN [inView |-> Append(view.inView, i)] @@ Dispatched(view, i, "in")
    ELSE view

\* removeInViewItem(target): splice and ITEM_OUT_VIEW, when listed
RemoveInViewItem(view, i) ==
    LET inViewIndex == ArrayIndexOf(view.inView, i)
    IN  IF inViewIndex > 0 - 1
        THEN [inView |-> Splice(view.inView, inViewIndex)]
                 @@ Dispatched(view, i, "out")
        ELSE view

\* The width of the looping track: this.itemWidth * this.carouselItems.length
TrackWidth == itemWidth * itemCount

\* setItemPositions(): item i is laid out at itemWidth * (index + 1)
StartX(i, width) == width * (i + 1)

\* The x the paused repeating tween hands the modifier of item i when its
\* progress is set to draggerX / TrackWidth: the start position advanced by
\* the fraction of one cycle
RawX(i, dx) == StartX(i, itemWidth) + (dx % TrackWidth)

\* getAnimationModifier, first line: x % (itemWidth * length)
WrappedX(x) == JsRem(x, TrackWidth)

\* getAnimationModifier: newX > 0 && newX < this.viewWidth + this.itemWidth
InViewRange(newX) == newX > 0 /\ newX < viewWidth + itemWidth

\* A variant of VisibilityOf that forgets the item's own width
VisibilityOfView(newX) ==
    IF newX > viewWidth THEN "hidden" ELSE "visible"

\* getAnimationModifier: newX - this.itemWidth > this.viewWidth ? 'hidden' : 'visible'
VisibilityOf(newX) ==
    IF newX - itemWidth > viewWidth THEN "hidden" ELSE "visible"

\* getAnimationModifier(x, target), the in-view part
AnimationModifier(view, i, x) ==
    IF InViewRange(WrappedX(x))
    THEN AddInViewItem(view, i)
    ELSE RemoveInViewItem(view, i)

\* One render of the looping tween calls the modifier for every item in order
RECURSIVE RenderFrom(_, _, _)
RenderFrom(view, i, dx) ==
    IF i >= itemCount THEN view
    ELSE RenderFrom(AnimationModifier(view, i, RawX(i, dx)), i + 1, dx)

View == [inView |-> inViewIndexes, log |-> viewLog, events |-> {}]

NoRender == [done |-> FALSE, events |-> {}, x |-> <<>>, visibility |-> <<>>]

\* setAnimationProgress(progress): nothing without an animation
SetAnimationProgress(dx) ==
    IF animation
    THEN LET after == RenderFrom(View, 0, dx)
         IN  /\ inViewIndexes' = after.inView
             /\ viewLog' = after.log
             /\ lastRender' =
                    [done |-> TRUE,
                     events |-> after.events,
                     x |-> [i \in Items |-> WrappedX(RawX(i, dx))],
                     visibility |-> [i \in Items |->
                                        IF options.hideOverflowItems
                                        THEN VisibilityOf(WrappedX(RawX(i, dx)))
                                        ELSE "unset"]]
    ELSE /\ lastRender' = NoRender
         /\ UNCHANGED <<inViewIndexes, viewLog>>

\* onUpdateProgress(): setAnimationProgress(this.dragger.x / track width)
OnUpdateProgress(dx) == SetAnimationProgress(dx)

----------------------------------------------------------------------------
(* The state after new CarouselController(wrapper, drag, items, options) *)

OptionSets == [hideOverflowItems : BOOLEAN, isInfinite : BOOLEAN, isAutoplay : BOOLEAN]

NoCall == [op |-> "none", arg |-> 0, row |-> FALSE, pre |-> 0, ret |-> 0]
NoChange == [op |-> "none", moved |-> FALSE]
NoRun == [n |-> 0, start |-> 0]
NoRotation == [pc |-> "idle", index |-> 0, newIndex |-> 0, total |-> 0,
               curIndex |-> 0, updatedNewIndex |-> 0]

Init ==
    /\ itemCount \in ItemCounts
    /\ itemWidth \in ItemWidths
    /\ viewWidth \in ViewWidths
    /\ options \in OptionSets
    /\ bounds = GetBounds(options, itemCount, itemWidth, viewWidth)
    /\ snapIndex = 0
    /\ previousSnapIndex = 0
    /\ inViewIndexes = <<>>
    /\ autoplayInterval = IF options.isAutoplay THEN 1 ELSE 0
    /\ intervals = IF options.isAutoplay THEN {1} ELSE {}
    /\ animation = TRUE
    /\ draggerX = 0
    /\ gesture = "idle"
    /\ throwEnd = 0
    /\ tweens = <<>>
    /\ listening = TRUE
    /\ debounce = FALSE
    /\ initTimer = TRUE
    /\ disposed = FALSE
    /\ lastCall = NoCall
    /\ lastChange = NoChange
    /\ lastRender = NoRender
    /\ viewLog = [i \in Items |-> 0]
    /\ nextRun = NoRun
    /\ rotation = NoRotation
    /\ lastFrame = "none"

----------------------------------------------------------------------------
(* Programmatic navigation *)

geometry == <<itemCount, itemWidth, viewWidth, options, bounds>>
looping == <<inViewIndexes, viewLog>>
timers == <<listening, debounce, initTimer>>

\* A variant of Goto that leaves the autoplay interval running
GotoKeepsAutoplay(index, width, moved) ==
    /\ UNCHANGED <<autoplayInterval, intervals>>
    /\ tweens' = Append(tweens, [x |-> index * (0 - 1) * width,
                                 started |-> FALSE, moved |-> moved])

\* goto(index, duration, delay): stopAutoplay() and a new tween of this.dragger
\* to index * -1 * this.itemWidth; moved is the observer's note of whether the
\* call that made it changed snapIndex
Goto(index, width, moved) ==
    /\ autoplayInterval' = StopAutoplay(Timer).handle
    /\ intervals' = StopAutoplay(Timer).live
    /\ tweens' = Append(tweens, [x |-> index * (0 - 1) * width,
                                 started |-> FALSE, moved |-> moved])

\* The observer's count of next() calls in a row
Counted(run, index) ==
    IF run.n = 0 \/ run.n = itemCount
    THEN [n |-> 1, start |-> index]
    ELSE [n |-> run.n + 1, start |-> run.start]

\* next(moveRow)
NextBody(moveRow) ==
    LET target == NextSnapIndex(snapIndex, moveRow, viewWidth, itemWidth, itemCount)
    IN  /\ snapIndex' = target
        /\ Goto(target, itemWidth, target # snapIndex)
        /\ lastCall' = [op |-> "next", arg |-> 0, row |-> moveRow,
                        pre |-> snapIndex, ret |-> 0]
        /\ lastChange' = NoChange
        /\ lastRender' = NoRender
        /\ UNCHANGED <<geometry, looping, timers, previousSnapIndex, animation,
                       draggerX, gesture, throwEnd, disposed>>

CallNext(moveRow) ==
    /\ ~disposed
    /\ NextBody(moveRow)

\* previous(moveRow)
CallPrevious(moveRow) ==
    LET target == PreviousSnapIndex(snapIndex, moveRow, viewWidth, itemWidth)
    IN  /\ ~disposed
        /\ snapIndex' = target
        /\ Goto(target, itemWidth, target # snapIndex)
        /\ lastCall' = [op |-> "previous", arg |-> 0, row |-> moveRow,
                        pre |-> snapIndex, ret |-> 0]
        /\ lastChange' = NoChange
        /\ lastRender' = NoRender
        /\ UNCHANGED <<geometry, looping, timers, previousSnapIndex, animation,
                       draggerX, gesture, throwEnd, disposed>>

\* activate(index)
CallActivate(index) ==
    LET target == GetNearestRotationIndex(snapIndex, index, itemCount)
    IN  /\ ~disposed
        /\ snapIndex' = target
        /\ Goto(target, itemWidth, target # snapIndex)
        /\ lastCall' = [op |-> "activate", arg |-> index, row |-> FALSE,
                        pre |-> snapIndex, ret |-> 0]
        /\ lastChange' = NoChange
        /\ lastRender' = NoRender
        /\ UNCHANGED <<geometry, looping, timers, previousSnapIndex, animation,
                       draggerX, gesture, throwEnd, disposed>>

\* The setInterval callback of startAutoplay: () => this.next()
AutoplayTick ==
    /\ intervals # {}
    /\ NextBody(FALSE)

----------------------------------------------------------------------------
(* The tween goto started: TweenMax.to(this.dragger, duration, {x, ...}) *)

\* Whole positions strictly between two positions
Between(a, b) == ((a + 1)..(b - 1)) \cup ((b + 1)..(a - 1))

\* The first render of the oldest tween that has not started.  GSAP's default
\* overwrite mode kills the older tweens of the same property of this.dragger;
\* onStart dispatches CHANGE; onUpdate copies dragger.x to the proxy and calls
\* onUpdateProgress().  The tweens created before a tick all render their
\* first frame in that tick, so a tween that starts with a newer one waiting
\* is killed by it before any other callback of its own
TweenStart ==
    \E k \in 1..Len(tweens) :
        /\ ~tweens[k].started
        /\ \A j \in 1..(k - 1) : tweens[j].started
        /\ tweens' = IF k < Len(tweens)
                      THEN SubSeq(tweens, k + 1, Len(tweens))
                      ELSE <<[tweens[k] EXCEPT !.started = TRUE]>>
        /\ lastChange' = [op |-> "goto", moved |-> tweens[k].moved]
        /\ OnUpdateProgress(draggerX)
        /\ lastCall' = NoCall
        /\ UNCHANGED <<geometry, timers, snapIndex, previousSnapIndex,
                       autoplayInterval, intervals, animation, draggerX, gesture,
                       throwEnd, disposed>>

\* A later render of the running tween, before its end: onUpdate
TweenUpdate ==
    /\ Len(tweens) > 0
    /\ tweens[1].started
    /\ \E p \in Between(draggerX, tweens[1].x) :
        /\ draggerX' = p
        /\ OnUpdateProgress(p)
    /\ lastCall' = NoCall
    /\ lastChange' = NoChange
    /\ UNCHANGED <<geometry, timers, snapIndex, previousSnapIndex,
                   autoplayInterval, intervals, animation, gesture, throwEnd,
                   tweens, disposed>>

\* The last render of the running tween: onUpdate at the target, then
\* onComplete: startAutoplay()
TweenComplete ==
    /\ Len(tweens) > 0
    /\ tweens[1].started
    /\ draggerX' = tweens[1].x
    /\ OnUpdateProgress(tweens[1].x)
    /\ tweens' = Tail(tweens)
    /\ autoplayInterval' = StartAutoplay(Timer).handle
    /\ intervals' = StartAutoplay(Timer).live
    /\ lastCall' = NoCall
    /\ lastChange' = NoChange
    /\ UNCHANGED <<geometry, timers, snapIndex, previousSnapIndex, animation,
                   gesture, throwEnd, disposed>>

----------------------------------------------------------------------------
(* Drag gestures: the callbacks createDraggable registers *)

\* Draggable keeps the pointer's drag inside the bounds
InBounds(x) == bounds.none \/ (bounds.minX <= x /\ x <= bounds.maxX)

\* ThrowPropsPlugin keeps the end of a throw inside the bounds
ClampToBounds(x) ==
    IF bounds.none THEN x
    ELSE IF x > bounds.maxX THEN bounds.maxX
    ELSE IF x < bounds.minX THEN bounds.minX
    ELSE x

\* onDragStart: stopAutoplay().  Pressing during a throw ends that throw.
DragStart ==
    /\ ~disposed
    /\ gesture \in {"idle", "throwing"}
    /\ gesture' = "dragging"
    /\ throwEnd' = 0
    /\ autoplayInterval' = StopAutoplay(Timer).handle
    /\ intervals' = StopAutoplay(Timer).live
    /\ lastCall' = NoCall
    /\ lastChange' = NoChange
    /\ lastRender' = NoRender
    /\ UNCHANGED <<geometry, looping, timers, snapIndex, previousSnapIndex,
                   animation, draggerX, tweens, disposed>>

\* onDrag: onUpdateProgress() at the pointer's new position
Drag ==
    /\ gesture = "dragging"
    /\ \E p \in {q \in {draggerX - 1, draggerX + 1} : InBounds(q)} :
        /\ draggerX' = p
        /\ OnUpdateProgress(p)
    /\ lastCall' = NoCall
    /\ lastChange' = NoChange
    /\ UNCHANGED <<geometry, timers, snapIndex, previousSnapIndex,
                   autoplayInterval, intervals, animation, gesture, throwEnd,
                   tweens, disposed>>

\* The pointer is released: the throw is going to end at endValue, and
\* snap: getSnap(endValue) sets snapIndex and answers where to settle
Release(endValue) ==
    /\ gesture = "dragging"
    /\ snapIndex' = SnapIndexOf(endValue, itemWidth)
    /\ throwEnd' = ClampToBounds(SnapPosition(snapIndex', itemWidth))
    /\ gesture' = "throwing"
    /\ lastCall' = [op |-> "getSnap", arg |-> endValue, row |-> FALSE,
                    pre |-> snapIndex, ret |-> SnapPosition(snapIndex', itemWidth)]
    /\ lastChange' = NoChange
    /\ lastRender' = NoRender
    /\ UNCHANGED <<geometry, looping, timers, previousSnapIndex,
                   autoplayInterval, intervals, animation, draggerX, tweens,
                   disposed>>

\* onThrowUpdate: onUpdateProgress() on the way to the settle position
ThrowUpdate ==
    /\ gesture = "throwing"
    /\ \E p \in Between(draggerX, throwEnd) :
        /\ draggerX' = p
        /\ OnUpdateProgress(p)
    /\ lastCall' = NoCall
    /\ lastChange' = NoChange
    /\ UNCHANGED <<geometry, timers, snapIndex, previousSnapIndex,
                   autoplayInterval, intervals, animation, gesture, throwEnd,
                   tweens, disposed>>

\* The throw settles: a last onThrowUpdate, then onThrowComplete()
ThrowComplete ==
    /\ gesture = "throwing"
    /\ draggerX' = throwEnd
    /\ OnUpdateProgress(throwEnd)
    /\ lastChange' = IF snapIndex # previousSnapIndex
                     THEN [op |-> "throw", moved |-> TRUE]
                     ELSE NoChange
    /\ previousSnapIndex' = snapIndex
    /\ autoplayInterval' = StartAutoplay(Timer).handle
    /\ intervals' = StartAutoplay(Timer).live
    /\ gesture' = "idle"
    /\ throwEnd' = 0
    /\ lastCall' = NoCall
    /\ UNCHANGED <<geometry, timers, snapIndex, animation, tweens, disposed>>

----------------------------------------------------------------------------
(* Resize, the constructor's timer and disposal *)

\* A variant of UpdateSize that reads the index back from the drag position
UpdateSizeResnap(width, view) ==
    /\ itemWidth' = width
    /\ viewWidth' = view
    /\ animation' = TRUE
    /\ lastRender' = NoRender
    /\ snapIndex' = SnapIndexOf(draggerX, width)
    /\ Goto(snapIndex', width, FALSE)
    /\ lastCall' = [op |-> "updateSize", arg |-> itemWidth, row |-> FALSE,
                    pre |-> snapIndex, ret |-> 0]
    /\ lastChange' = NoChange
    /\ UNCHANGED <<itemCount, options, bounds, previousSnapIndex,
                   inViewIndexes, viewLog, draggerX, gesture,
                   throwEnd, listening, initTimer, disposed>>

\* updateSize(): measure width and view, lay the items out again and, as the
\* dragger exists, createAnimation() and goto(this.snapIndex, 0.1, 0)
UpdateSize(width, view) ==
    /\ itemWidth' = width
    /\ viewWidth' = view
    /\ animation' = TRUE
    /\ lastRender' = NoRender
    /\ Goto(snapIndex, width, FALSE)
    /\ lastCall' = [op |-> "updateSize", arg |-> itemWidth, row |-> FALSE,
                    pre |-> snapIndex, ret |-> 0]
    /\ lastChange' = NoChange
    /\ UNCHANGED <<itemCount, options, bounds, snapIndex, previousSnapIndex,
                   inViewIndexes, viewLog, draggerX, gesture,
                   throwEnd, listening, initTimer, disposed>>

\* The parent calls updateSize()
CallUpdateSize(width, view) ==
    /\ ~disposed
    /\ UpdateSize(width, view)
    /\ UNCHANGED debounce

\* window fires 'resize': the listener (re)starts the 150 ms debounce timer
ResizeEvent ==
    /\ listening
    /\ ~debounce
    /\ debounce' = TRUE
    /\ lastCall' = NoCall
    /\ lastChange' = NoChange
    /\ lastRender' = NoRender
    /\ UNCHANGED <<geometry, looping, snapIndex, previousSnapIndex,
                   autoplayInterval, intervals, animation, draggerX, gesture,
                   throwEnd, tweens, listening, initTimer, disposed>>

\* The debounce timer elapses: updateSize()
DebounceElapsed(width, view) ==
    /\ debounce
    /\ debounce' = FALSE
    /\ UpdateSize(width, view)

\* The constructor's setTimeout: setAnimationProgress(-0.0000000001), which
\* whole pixels round to one pixel before the start of the track
InitTimerElapsed ==
    /\ initTimer
    /\ initTimer' = FALSE
    /\ SetAnimationProgress(0 - 1)
    /\ lastCall' = NoCall
    /\ lastChange' = NoChange
    /\ UNCHANGED <<geometry, snapIndex, previousSnapIndex, autoplayInterval,
                   intervals, animation, draggerX, gesture, throwEnd, tweens,
                   listening, debounce, disposed>>

\* dispose(): stopAutoplay(), resizeListener.dispose(), dragger.kill(),
\* animation.kill(), TweenMax.killTweensOf(this.dragger)
Dispose ==
    /\ ~disposed
    /\ disposed' = TRUE
    /\ autoplayInterval' = StopAutoplay(Timer).handle
    /\ intervals' = StopAutoplay(Timer).live
    /\ listening' = FALSE
    /\ gesture' = "idle"
    /\ throwEnd' = 0
    /\ animation' = FALSE
    /\ tweens' = <<>>
    /\ lastCall' = [op |-> "dispose", arg |-> 0, row |-> FALSE,
                    pre |-> snapIndex, ret |-> 0]
    /\ lastChange' = NoChange
    /\ lastRender' = NoRender
    /\ UNCHANGED <<geometry, looping, snapIndex, previousSnapIndex, draggerX,
                   debounce, initTimer>>

----------------------------------------------------------------------------
(* The specifications *)

\* A step stays inside the part of the state space a check explores
Within(maxSnap, maxTweens, maxIntervals) ==
    /\ Abs(snapIndex') <= maxSnap
    /\ Abs(draggerX') <= maxSnap * MaxItemWidth
    /\ Len(tweens') <= maxTweens
    /\ Cardinality(intervals') <= maxIntervals

\* The ends a throw can have
ThrowEnds(maxSnap) == (0 - maxSnap * MaxItemWidth)..(maxSnap * MaxItemWidth)

MaxSnap == 1
MaxTweens == 2
MaxIntervals == 2

Bounded ==
    /\ Within(MaxSnap, MaxTweens, MaxIntervals)
    /\ UNCHANGED <<nextRun, rotation, lastFrame>>

\* The parent calls next, previous or activate, and the user presses, only
\* when no gesture and no transition is under way
AtRest == gesture = "idle" /\ tweens = <<>>

\* Every step of the controller's life: calls of the parent and presses at
\* rest; autoplay ticks, tween renders, pointer moves, resizes, timers and
\* dispose() at any moment.  The constructor's zero-delay timer elapses before
\* the first animation frame, the first press, the 150 ms debounce and the
\* autoplay interval
Next ==
    \/ AtRest /\ (\E moveRow \in BOOLEAN : CallNext(moveRow)) /\ Bounded
    \/ AtRest /\ (\E moveRow \in BOOLEAN : CallPrevious(moveRow)) /\ Bounded
    \/ AtRest /\ (\E index \in Items : CallActivate(index)) /\ Bounded
    \/ ~initTimer /\ AutoplayTick /\ Bounded
    \/ ~initTimer /\ TweenStart /\ Bounded
    \/ TweenUpdate /\ Bounded
    \/ TweenComplete /\ Bounded
    \/ ~initTimer /\ AtRest /\ DragStart /\ Bounded
    \/ Drag /\ Bounded
    \/ (\E endValue \in ThrowEnds(MaxSnap) : Release(endValue)) /\ Bounded
    \/ ThrowUpdate /\ Bounded
    \/ ThrowComplete /\ Bounded
    \/ (\E width \in ItemWidths, view \in ViewWidths : CallUpdateSize(width, view))
           /\ Bounded
    \/ ResizeEvent /\ Bounded
    \/ ~initTimer
           /\ (\E width \in ItemWidths, view \in ViewWidths : DebounceElapsed(width, view))
           /\ Bounded
    \/ InitTimerElapsed /\ Bounded
    \/ Dispose /\ Bounded

\* A carousel of MaxItems items in the default infinite mode that hides its
\* overflow, with and without autoplay
LifeInit ==
    /\ Init
    /\ itemCount = MaxItems
    /\ itemWidth = MaxItemWidth
    /\ viewWidth = MaxViewWidth
    /\ options.hideOverflowItems
    /\ options.isInfinite

Spec == LifeInit /\ [][Next]_vars

\* The carousel used one operation at a time, in every geometry and both
\* bounds modes, without autoplay and resizes
MaxNavSnap == 2

NavBounded == Within(MaxNavSnap, 1, 0) /\ UNCHANGED <<rotation, lastFrame>>

\* At rest, the constructor's zero-delay timer having elapsed
Settled == AtRest /\ ~initTimer

NavNext ==
    \/ Settled /\ CallNext(FALSE) /\ NavBounded /\ nextRun' = Counted(nextRun, Index)
    \/ Settled /\ CallNext(TRUE) /\ NavBounded /\ nextRun' = NoRun
    \/ Settled /\ (\E moveRow \in BOOLEAN : CallPrevious(moveRow)) /\ NavBounded
           /\ nextRun' = NoRun
    \/ Settled /\ (\E index \in Items : CallActivate(index)) /\ NavBounded
           /\ nextRun' = NoRun
    \/ Settled /\ DragStart /\ NavBounded /\ UNCHANGED nextRun
    \/ (\E endValue \in ThrowEnds(MaxNavSnap) : Release(endValue)) /\ NavBounded
           /\ nextRun' = NoRun
    \/ TweenStart /\ NavBounded /\ UNCHANGED nextRun
    \/ TweenUpdate /\ NavBounded /\ UNCHANGED nextRun
    \/ TweenComplete /\ NavBounded /\ UNCHANGED nextRun
    \/ Drag /\ NavBounded /\ UNCHANGED nextRun
    \/ ThrowUpdate /\ NavBounded /\ UNCHANGED nextRun
    \/ ThrowComplete /\ NavBounded /\ UNCHANGED nextRun
    \/ InitTimerElapsed /\ NavBounded /\ UNCHANGED nextRun

NavInit == Init /\ ~options.isAutoplay /\ options.hideOverflowItems

SpecNav == NavInit /\ [][NavNext]_vars

----------------------------------------------------------------------------
(* activate(index), with getNearestRotationIndex run one loop test and one
   loop body at a time *)

\* Everything but the call activate is inside of
carousel == <<geometry, looping, timers, snapIndex, previousSnapIndex,
              autoplayInterval, intervals, animation, draggerX, gesture,
              throwEnd, tweens, disposed, lastCall, lastChange, lastRender>>

\* The value from which adding to a number no longer changes it
MaxNumber == 4

\* number + total
Plus(number, total) == IF number + total > MaxNumber THEN MaxNumber ELSE number + total

\* activate(index) enters getNearestRotationIndex(this.snapIndex, index,
\* this.carouselItems.length): let curIndex = index; let updatedNewIndex = newIndex
RotCall(index) ==
    /\ ~disposed
    /\ rotation.pc = "idle"
    /\ rotation' = [pc |-> "cur", index |-> snapIndex, newIndex |-> index,
                    total |-> itemCount, curIndex |-> snapIndex,
                    updatedNewIndex |-> index]
    /\ UNCHANGED carousel

\* while (curIndex < 0)
RotTestCurrent ==
    /\ rotation.pc = "cur"
    /\ rotation' = [rotation EXCEPT !.pc = IF rotation.curIndex < 0
                                           THEN "curBody" ELSE "new"]
    /\ UNCHANGED carousel

\* curIndex += total
RotAddCurrent ==
    /\ rotation.pc = "curBody"
    /\ rotation' = [rotation EXCEPT !.pc = "cur",
                                    !.curIndex = Plus(rotation.curIndex, rotation.total)]
    /\ UNCHANGED carousel

\* while (newIndex < 0)
RotTestTarget ==
    /\ rotation.pc = "new"
    /\ rotation' = [rotation EXCEPT !.pc = IF rotation.newIndex < 0
                                           THEN "newBody" ELSE "ret"]
    /\ UNCHANGED carousel

\* updatedNewIndex += total
RotAddTarget ==
    /\ rotation.pc = "newBody"
    /\ rotation' = [rotation EXCEPT !.pc = "new",
                                    !.updatedNewIndex =
                                        Plus(rotation.updatedNewIndex, rotation.total)]
    /\ UNCHANGED carousel

\* The rest of getNearestRotationIndex, from const diff on
RotationResult(index, curIndex, updatedNewIndex, total) ==
    LET diff == Abs(curIndex - updatedNewIndex)
    IN  IF 2 * diff > total
        THEN IF curIndex > updatedNewIndex
             THEN index + (total - diff)
             ELSE index - (total - diff)
        ELSE IF curIndex < updatedNewIndex
             THEN index + diff
             ELSE index - diff

\* getNearestRotationIndex returns and activate assigns this.snapIndex and
\* calls this.goto(this.snapIndex)
RotReturn ==
    LET target == RotationResult(rotation.index, rotation.curIndex,
                                 rotation.updatedNewIndex, rotation.total)
    IN  /\ rotation.pc = "ret"
        /\ rotation' = NoRotation
        /\ snapIndex' = target
        /\ Goto(target, itemWidth, target # snapIndex)
        /\ lastCall' = [op |-> "activate", arg |-> rotation.newIndex, row |-> FALSE,
                        pre |-> snapIndex, ret |-> 0]
        /\ lastChange' = NoChange
        /\ lastRender' = NoRender
        /\ UNCHANGED <<geometry, looping, timers, previousSnapIndex, animation,
                       draggerX, gesture, throwEnd, disposed>>

\* A step of the call under way
RotStep ==
    \/ RotTestCurrent
    \/ RotAddCurrent
    \/ RotTestTarget
    \/ RotAddTarget
    \/ RotReturn

\* The arguments activate is called with
RotTargets == (0 - MaxItems)..(MaxItems - 1)

\* Calls are made from the snap indexes up to MaxNavSnap; a call moves at most
\* half a turn, which is less than MaxItems
RotBounded ==
    /\ Within(MaxNavSnap + MaxItems, 1, 0)
    /\ UNCHANGED <<nextRun, lastFrame>>

CallableFrom == Settled /\ Abs(snapIndex) <= MaxNavSnap

\* No other code of the page runs while a call is under way
Outside == rotation.pc = "idle"

\* activate and previous called at rest, and the transitions they start
RotNext ==
    \/ CallableFrom /\ (\E index \in RotTargets : RotCall(index)) /\ RotBounded
    \/ RotTestCurrent /\ RotBounded
    \/ RotAddCurrent /\ RotBounded
    \/ RotTestTarget /\ RotBounded
    \/ RotAddTarget /\ RotBounded
    \/ RotReturn /\ RotBounded
    \/ Outside /\ CallableFrom /\ CallPrevious(FALSE) /\ RotBounded
           /\ UNCHANGED rotation
    \/ Outside /\ TweenStart /\ RotBounded /\ UNCHANGED rotation
    \/ Outside /\ TweenUpdate /\ RotBounded /\ UNCHANGED rotation
    \/ Outside /\ TweenComplete /\ RotBounded /\ UNCHANGED rotation
    \/ Outside /\ InitTimerElapsed /\ RotBounded /\ UNCHANGED rotation

\* An infinite carousel without autoplay, of every item count
RotInit ==
    /\ Init
    /\ itemWidth = MaxItemWidth
    /\ viewWidth = MaxViewWidth
    /\ options.isInfinite
    /\ options.hideOverflowItems
    /\ ~options.isAutoplay

\* A call that has been entered runs on: the script is not preempted
SpecRot == RotInit /\ [][RotNext]_vars /\ WF_vars(RotStep /\ RotBounded)

----------------------------------------------------------------------------
(* Navigation calls and presses while a transition is under way *)

CancelBounded == Within(MaxSnap, MaxTweens, 0) /\ UNCHANGED <<nextRun, rotation>>

\* No gesture under way, the constructor's zero-delay timer having elapsed:
\* the parent calls next, previous and activate between gestures, during a
\* transition too
Ready == gesture = "idle" /\ ~initTimer

\* The user presses at any moment, the parent navigates between gestures, and
\* every step notes which callback of a goto tween it ran
CancelNext ==
    \/ Ready /\ CallNext(FALSE) /\ CancelBounded /\ lastFrame' = "none"
    \/ Ready /\ CallPrevious(FALSE) /\ CancelBounded /\ lastFrame' = "none"
    \/ Ready /\ (\E index \in Items : CallActivate(index)) /\ CancelBounded
           /\ lastFrame' = "none"
    \/ ~initTimer /\ TweenStart /\ CancelBounded /\ lastFrame' = "onStart"
    \/ TweenUpdate /\ CancelBounded /\ lastFrame' = "onUpdate"
    \/ TweenComplete /\ CancelBounded /\ lastFrame' = "onComplete"
    \/ ~initTimer /\ DragStart /\ CancelBounded /\ lastFrame' = "none"
    \/ Drag /\ CancelBounded /\ lastFrame' = "none"
    \/ (\E endValue \in ThrowEnds(MaxSnap) : Release(endValue)) /\ CancelBounded
           /\ lastFrame' = "none"
    \/ ThrowUpdate /\ CancelBounded /\ lastFrame' = "none"
    \/ ThrowComplete /\ CancelBounded /\ lastFrame' = "none"
    \/ InitTimerElapsed /\ CancelBounded /\ lastFrame' = "none"

\* A carousel of MaxItems items in the default infinite mode, without autoplay
CancelInit == LifeInit /\ ~options.isAutoplay

SpecCancel == CancelInit /\ [][CancelNext]_vars

----------------------------------------------------------------------------
(* Properties *)

\* Whether item i is listed in this.inViewIndexes, and how often
Listed(i) == \E k \in 1..Len(inViewIndexes) : inViewIndexes[k] = i
TimesListed(i) == Cardinality({k \in 1..Len(inViewIndexes) : inViewIndexes[k] = i})

\* C1: in every reachable state the index getter answers a value in
\* 0..itemCount-1, and that value is snapIndex modulo itemCount (the
\* mathematical, non-negative modulo), whether snapIndex is negative, in range
\* or beyond the last item.
C1_IndexInRange ==
    /\ Index \in 0..(itemCount - 1)
    /\ Index = snapIndex % itemCount

\* A throw from a snapIndex beyond the last item has snapped to a negative one
C1_Witness ==
    /\ lastCall.op = "getSnap"
    /\ lastCall.pre >= itemCount
    /\ snapIndex < 0
    /\ itemCount > 1

\* C2: activate(target) changes snapIndex by exactly the circular distance
\* min(d, itemCount - d) between the logical index before the call and the
\* target.
C2_ShortestRotation ==
    lastCall.op = "activate" =>
        LET d == Abs(IndexOf(lastCall.pre, itemCount) - lastCall.arg)
            shortest == IF d < itemCount - d THEN d ELSE itemCount - d
        IN  Abs(snapIndex - lastCall.pre) = shortest

\* C3: right after activate(target), for a target in 0..itemCount-1, the
\* index getter answers target.
C3_ActivateReachesTarget ==
    lastCall.op = "activate" => Index = lastCall.arg

\* activate(0) on the last of MaxItems items, one turn back: the short way
\* wraps forward
C3_Witness ==
    /\ lastCall.op = "activate"
    /\ itemCount = MaxItems
    /\ lastCall.pre = 0 - 1
    /\ lastCall.arg = 0
    /\ snapIndex = 0

\* C4: a CHANGE event dispatched when a transition of goto starts belongs to
\* a call that changed snapIndex; activate(target) on the current item
\* dispatches none.
C4_ChangeOnlyWhenMoved ==
    lastChange.op = "goto" => lastChange.moved

\* C5: getSnap(endValue) sets snapIndex to -round(endValue / itemWidth),
\* halves rounding up, and answers -snapIndex * itemWidth: a multiple of
\* itemWidth at most itemWidth / 2 away from endValue.
C5_SnapOnBoundary ==
    lastCall.op = "getSnap" =>
        LET rounded == 0 - snapIndex
            twiceOff == 2 * (lastCall.arg - rounded * itemWidth)
        IN  /\ 0 - itemWidth <= twiceOff
            /\ twiceOff < itemWidth
            /\ lastCall.ret = rounded * itemWidth
            /\ lastCall.ret % itemWidth = 0
            /\ 2 * Abs(lastCall.ret - lastCall.arg) <= itemWidth

\* A throw that ends exactly half way between two items
C5_Witness ==
    /\ lastCall.op = "getSnap"
    /\ itemWidth = MaxItemWidth
    /\ lastCall.arg < 0
    /\ 2 * Abs(lastCall.ret - lastCall.arg) = itemWidth

\* C6: after itemCount calls of next() in a row, with nothing else changing
\* snapIndex in between, the index getter answers what it answered before the
\* first of them.
C6_NextFullTurn ==
    nextRun.n = itemCount => Index = nextRun.start

\* A full turn of MaxItems calls that started on another item than the first
C6_Witness ==
    /\ nextRun.n = itemCount
    /\ itemCount = MaxItems
    /\ nextRun.start # 0
    /\ lastCall.op = "next"

\* C7: next(moveRow) adds to snapIndex, and previous(moveRow) takes from it,
\* exactly 1 without moveRow and exactly floor(viewWidth / itemWidth) with it,
\* and the transition the call creates goes to -snapIndex * itemWidth.
C7_StepAndTarget ==
    lastCall.op \in {"next", "previous"} =>
        LET step == IF lastCall.op = "next"
                    THEN snapIndex - lastCall.pre
                    ELSE lastCall.pre - snapIndex
        IN  /\ IF lastCall.row
               THEN /\ step * itemWidth <= viewWidth
                    /\ viewWidth < (step + 1) * itemWidth
               ELSE step = 1
            /\ Len(tweens) > 0
            /\ ~tweens[Len(tweens)].started
            /\ tweens[Len(tweens)].x = 0 - snapIndex * itemWidth

\* previous(true) with two items to the row, as in the scenario of the
\* description: from the second item back to the last
C7_Witness ==
    /\ lastCall.op = "previous"
    /\ lastCall.row
    /\ itemCount = MaxItems
    /\ lastCall.pre = 1
    /\ snapIndex = 0 - 1
    /\ Index = MaxItems - 1
    /\ tweens[Len(tweens)].x = itemWidth

\* C8: for every item the ITEM_IN_VIEW events dispatched so far are as many
\* as the ITEM_OUT_VIEW events or one more (so the two alternate, starting
\* with ITEM_IN_VIEW), the item is listed in inViewIndexes exactly in the
\* second case and never twice; and right after a render every item is listed
\* exactly when its wrapped position is strictly between 0 and
\* viewWidth + itemWidth, the events of that render being ITEM_IN_VIEW for
\* items now inside and ITEM_OUT_VIEW for items now outside.
C8_InViewAlternates ==
    \A i \in Items :
        /\ viewLog[i] \in {0, 1}
        /\ TimesListed(i) = viewLog[i]
        /\ lastRender.done =>
               LET inside == 0 < lastRender.x[i]
                                 /\ lastRender.x[i] < viewWidth + itemWidth
               IN  /\ Listed(i) <=> inside
                   /\ <<i, "in">> \in lastRender.events => inside
                   /\ <<i, "out">> \in lastRender.events => ~inside

\* One render in which an item left the range and another one entered it
C8_Witness ==
    /\ lastRender.done
    /\ \E i \in Items, j \in Items :
        /\ <<i, "out">> \in lastRender.events
        /\ <<j, "in">> \in lastRender.events
        /\ ~Listed(i)
        /\ Listed(j)

C10_NothingPendingAfterDispose ==
    disposed =>
        /\ ~debounce
        /\ intervals = {}
        /\ tweens = <<>>

\* C11: while a drag or throw gesture or a transition of goto is in flight,
\* no autoplay interval is scheduled.
C11_NoAutoplayInFlight ==
    (gesture # "idle" \/ tweens # <<>>) => intervals = {}

\* C12: with isInfinite false and a track at least as wide as the view, the
\* carousel at rest (no gesture, no transition) has its drag position inside
\* [-(itemWidth * itemCount - viewWidth), 0] for the widths as measured.
C12_RestInsideBounds ==
    (/\ ~options.isInfinite
     /\ itemWidth * itemCount >= viewWidth
     /\ gesture = "idle"
     /\ tweens = <<>>)
        => /\ 0 - (itemWidth * itemCount - viewWidth) <= draggerX
           /\ draggerX <= 0

\* C14: whenever no gesture and no transition is in flight,
\* previousSnapIndex equals snapIndex.
C14_PreviousIsCommitted ==
    (gesture = "idle" /\ tweens = <<>>) => previousSnapIndex = snapIndex

\* The tweens of goto whose first frame has rendered
Started(seq) == {k \in 1..Len(seq) : seq[k].started}

C17_RestOnItemBoundary ==
    (~disposed /\ gesture = "idle" /\ tweens = <<>>)
        => draggerX = 0 - snapIndex * itemWidth

\* C18: every interval that startAutoplay created and nobody cleared is the
\* one whose handle autoplayInterval stores, so there is at most one.
C18_SingleInterval ==
    /\ intervals \subseteq {autoplayInterval}
    /\ Cardinality(intervals) <= 1

\* C19: with hideOverflowItems, right after a render an item listed in
\* inViewIndexes is visible; an item is hidden exactly when its wrapped
\* position exceeds viewWidth + itemWidth; an item exactly at
\* viewWidth + itemWidth, or at a position <= 0, is visible and not listed.
C19_InViewNeverHidden ==
    (options.hideOverflowItems /\ lastRender.done) =>
        \A i \in Items :
            /\ Listed(i) => lastRender.visibility[i] = "visible"
            /\ lastRender.visibility[i] = "hidden"
                   <=> lastRender.x[i] > viewWidth + itemWidth
            /\ (lastRender.x[i] = viewWidth + itemWidth \/ lastRender.x[i] <= 0)
                   => (lastRender.visibility[i] = "visible" /\ ~Listed(i))

\* One render with an item in view, an item hidden and an item exactly at
\* viewWidth + itemWidth
C19_Witness ==
    /\ options.hideOverflowItems
    /\ lastRender.done
    /\ \E i \in Items, j \in Items, k \in Items :
        /\ Listed(i)
        /\ lastRender.visibility[i] = "visible"
        /\ lastRender.visibility[j] = "hidden"
        /\ lastRender.x[k] = viewWidth + itemWidth
        /\ ~Listed(k)

\* C13: every activate(index) call returns, whatever the integers snapIndex
\* and index are, a negative index included: getNearestRotationIndex leaves
\* both of its loops after finitely many additions of total
C13_RotationTerminates == (rotation.pc = "cur") ~> (rotation.pc = "idle")

\* C16: a new navigation or a press cancels the programmatic transition under
\* way: at most one goto tween is running in every state, and while a gesture
\* is under way no onStart, onUpdate or onComplete of a goto tween runs (goto
\* is only called between gestures here, so such a tween is an earlier one)
C16_StartCancels ==
    /\ Cardinality(Started(tweens)) <= 1
    /\ gesture = "dragging" => lastFrame = "none"

====
